---- MODULE Spec2Model ----
(***************************************************************************)
(* Model of the trading-bot back-test engine (src/src/main.rs):            *)
(* compute_rsi, volume_relative_high and the run_strategy position state   *)
(* machine.                                                                *)
(*                                                                         *)
(* f64 values are modelled as extended rationals: a finite value is an     *)
(* exact fraction n/d in lowest terms, and the IEEE-754 special values     *)
(* +inf, -inf and NaN are kept.  A finite result whose magnitude exceeds   *)
(* FloatMax overflows to an infinity, as an f64 result beyond f64::MAX     *)
(* does, and a nonzero result below the smallest positive float 1/TinyDen  *)
(* underflows to the nearer of zero and that float, as an f64 result below *)
(* the smallest subnormal does.  Rounding of the mantissa above that float *)
(* and the sign of zero are not modelled.                                  *)
(* usize values live in 0..UsizeMax.                                       *)
(***************************************************************************)
EXTENDS Integers, Sequences, FiniteSets, TLC

\* ------------------------------------------------------------------ bounds
\* Largest finite float of the model (stands for f64::MAX).
FloatMax == 1000
\* Denominator of the smallest positive float of the model, 1/TinyDen (stands
\* for the smallest subnormal f64, 5e-324).
TinyDen == 10000000
\* Largest usize of the model (stands for usize::MAX).
UsizeMax == 63
\* An indicator called alone: longest input sequence and largest ordinary
\* period or window.
MaxCloses == 5
MaxPeriod == 4
\* run_strategy: bars of the warm-up prefix and longest tail after it.
WarmLen == 20
MaxTail == 3

\* ------------------------------------------------------------------ f64
Abs(x) == IF x < 0 THEN -x ELSE x

Sign(x) == IF x < 0 THEN -1 ELSE IF x > 0 THEN 1 ELSE 0

RECURSIVE GCD(_, _)
GCD(a, b) == IF b = 0 THEN a ELSE GCD(b, a % b)

NaN == [k |-> "nan"]

Inf(s) == [k |-> "inf", s |-> s]

PosInf == Inf(1)

\* The finite value n/d (d > 0) in lowest terms, the infinity it overflows to,
\* or what it underflows to: below 1/TinyDen in magnitude it goes to the
\* nearer of 0 and +-1/TinyDen, a tie to 0.
Fin(n, d) ==
    LET g == GCD(Abs(n), d)
        nn == n \div g
        dd == d \div g
    IN  IF nn # 0 /\ Abs(nn) <= (dd - 1) \div TinyDen
        THEN IF Abs(nn) > dd \div (2 * TinyDen)
             THEN [k |-> "fin", n |-> Sign(nn), d |-> TinyDen]
             ELSE [k |-> "fin", n |-> 0, d |-> 1]
        ELSE IF Abs(nn) \div dd < FloatMax THEN [k |-> "fin", n |-> nn, d |-> dd]
        ELSE IF Abs(nn) > FloatMax * dd THEN Inf(Sign(nn))
        ELSE [k |-> "fin", n |-> nn, d |-> dd]

F(n) == Fin(n, 1)

Zero == F(0)

FSign(a) == IF a.k = "fin" THEN Sign(a.n) ELSE a.s

FNeg(a) ==
    CASE a.k = "nan" -> NaN
      [] a.k = "inf" -> Inf(-a.s)
      [] OTHER -> [k |-> "fin", n |-> -a.n, d |-> a.d]

FAdd(a, b) ==
    CASE a.k = "nan" \/ b.k = "nan" -> NaN
      [] a.k = "inf" /\ b.k = "inf" -> IF a.s = b.s THEN a ELSE NaN
      [] a.k = "inf" -> a
      [] b.k = "inf" -> b
      [] OTHER ->
           LET g == GCD(a.d, b.d)
           IN  Fin(a.n * (b.d \div g) + b.n * (a.d \div g), (a.d \div g) * b.d)

FSub(a, b) == FAdd(a, FNeg(b))

FMul(a, b) ==
    CASE a.k = "nan" \/ b.k = "nan" -> NaN
      [] a.k = "inf" \/ b.k = "inf" ->
           IF FSign(a) * FSign(b) = 0 THEN NaN ELSE Inf(FSign(a) * FSign(b))
      [] OTHER ->
           LET g1 == GCD(Abs(a.n), b.d)
               g2 == GCD(Abs(b.n), a.d)
           IN  Fin((a.n \div g1) * (b.n \div g2), (a.d \div g2) * (b.d \div g1))

FDiv(a, b) ==
    CASE a.k = "nan" \/ b.k = "nan" -> NaN
      [] a.k = "inf" /\ b.k = "inf" -> NaN
      [] a.k = "inf" -> Inf(IF FSign(b) < 0 THEN -a.s ELSE a.s)
      [] b.k = "inf" -> Zero
      [] b.n = 0 -> IF a.n = 0 THEN NaN ELSE Inf(Sign(a.n))
      [] OTHER ->
           LET g1 == GCD(Abs(a.n), Abs(b.n))
               g2 == GCD(a.d, b.d)
               n == (a.n \div g1) * (b.d \div g2) * Sign(b.n)
               d == (a.d \div g2) * (Abs(b.n) \div g1)
           IN  Fin(n, d)

\* a < b on f64: false when either side is NaN.
FLt(a, b) ==
    CASE a.k = "nan" \/ b.k = "nan" -> FALSE
      [] a.k = "inf" /\ b.k = "inf" -> a.s < b.s
      [] a.k = "inf" -> a.s < 0
      [] b.k = "inf" -> b.s > 0
      [] OTHER ->
           LET g == GCD(a.d, b.d)
           IN  a.n * (b.d \div g) < b.n * (a.d \div g)

FEq(a, b) == a.k # "nan" /\ b.k # "nan" /\ a = b

FGt(a, b) == FLt(b, a)

FLe(a, b) == FLt(a, b) \/ FEq(a, b)

FGe(a, b) == FLe(b, a)

\* f64::max: the larger operand; a NaN operand is ignored.
FMaxOf(a, b) ==
    IF a.k = "nan" THEN b
    ELSE IF b.k = "nan" THEN a
    ELSE IF FLt(a, b) THEN b ELSE a

\* Option<T>
None == [k |-> "none"]

Some(v) == [k |-> "some", v |-> v]

IsSome(o) == o.k = "some"

\* 0-based indexing of a slice.
At(s, i) == s[i + 1]

Fill(v, n) == [j \in 1..n |-> v]

\* ------------------------------------------------------------------ compute_rsi
RsiPeriod == 14

\* Mutant of RsiValue: no special case for avg_loss == 0.0.
RsiValue_NoZeroLoss(avg_gain, avg_loss) ==
    FSub(F(100), FDiv(F(100), FAdd(F(1), FDiv(avg_gain, avg_loss))))

\* rsis[i] from the running averages: RS is +inf when avg_loss == 0.0.
RsiValue(avg_gain, avg_loss) ==
    LET rs == IF FEq(avg_loss, Zero) THEN PosInf ELSE FDiv(avg_gain, avg_loss)
    IN  FSub(F(100), FDiv(F(100), FAdd(F(1), rs)))

\* The seed loop `for i in 1..=period`: <<gains, losses>> after index i..period.
RECURSIVE SeedSums(_, _, _, _, _)
SeedSums(closes, period, i, gains, losses) ==
    IF i > period THEN <<gains, losses>>
    ELSE LET change == FSub(At(closes, i), At(closes, i - 1))
         IN  IF FGe(change, Zero)
             THEN SeedSums(closes, period, i + 1, FAdd(gains, change), losses)
             ELSE SeedSums(closes, period, i + 1, gains, FSub(losses, change))

\* One step of the smoothing recurrence for avg_gain or avg_loss.
Smooth(avg, x, period) ==
    FDiv(FAdd(FMul(avg, FSub(F(period), F(1))), x), F(period))

\* The loop `for i in (period + 1)..closes.len()`: acc holds, for every index
\* from period up to i - 1, the averages and the emitted value.
RECURSIVE Smoothing(_, _, _, _)
Smoothing(closes, period, i, acc) ==
    IF i >= Len(closes) THEN acc
    ELSE LET prev == acc[Len(acc)]
             change == FSub(At(closes, i), At(closes, i - 1))
             gain == FMaxOf(change, Zero)
             loss == FMaxOf(FNeg(change), Zero)
             avg_gain == Smooth(prev.avg_gain, gain, period)
             avg_loss == Smooth(prev.avg_loss, loss, period)
         IN  Smoothing(closes, period, i + 1,
                 Append(acc, [avg_gain |-> avg_gain, avg_loss |-> avg_loss,
                              rsi |-> RsiValue(avg_gain, avg_loss)]))

\* Averages and value at every index period..len-1 (entry j is index period+j-1);
\* requires 0 < period < Len(closes).
RsiTrace(closes, period) ==
    LET sums == SeedSums(closes, period, 1, Zero, Zero)
        avg_gain == FDiv(sums[1], F(period))
        avg_loss == FDiv(sums[2], F(period))
    IN  Smoothing(closes, period, period + 1,
            << [avg_gain |-> avg_gain, avg_loss |-> avg_loss,
                rsi |-> RsiValue(avg_gain, avg_loss)] >>)

\* `period + 1` on usize: past UsizeMax it panics when overflow checks are on
\* and wraps when they are off.
PeriodPlusOneWrapped(period) == (period + 1) % (UsizeMax + 1)

\* The early return of compute_rsi.
RsiTooShort(closes, period) ==
    Len(closes) < PeriodPlusOneWrapped(period) \/ period = 0

\* Whether the call panics: on the overflowing `period + 1`, or, when that
\* wrapped, on the out-of-bounds closes[i] of the seed loop.
compute_rsi_panics(closes, period, overflow_checks) ==
    \/ period + 1 > UsizeMax /\ overflow_checks
    \/ ~RsiTooShort(closes, period) /\ period >= Len(closes)

\* The vector compute_rsi returns when it does not panic.
compute_rsi(closes, period) ==
    IF RsiTooShort(closes, period) THEN Fill(None, Len(closes))
    ELSE LET trace == RsiTrace(closes, period)
         IN  [j \in 1..Len(closes) |->
                 IF j - 1 < period THEN None ELSE Some(trace[j - period].rsi)]

\* ------------------------------------------------------------------ volume_relative_high
VolWindow == 20

\* f64::MIN, the seed of the fold.
FloatMin == F(-FloatMax)

\* The fold over volumes[lo..hi): the largest element seen, starting from acc.
RECURSIVE FoldMax(_, _, _, _)
FoldMax(volumes, lo, hi, acc) ==
    IF lo >= hi THEN acc
    ELSE FoldMax(volumes, lo + 1, hi,
             IF FGt(At(volumes, lo), acc) THEN At(volumes, lo) ELSE acc)

\* Mutant of volume_relative_high: a tie with the window maximum counts as high.
volume_relative_high_Ties(volumes, window) ==
    [j \in 1..Len(volumes) |->
        IF j - 1 < window THEN FALSE
        ELSE FGe(volumes[j], FoldMax(volumes, j - 1 - window, j - 1, FloatMin))]

\* Mutant of volume_relative_high: no warm-up, a short window is compared too.
volume_relative_high_NoWarmup(volumes, window) ==
    [j \in 1..Len(volumes) |->
        FGt(volumes[j],
            FoldMax(volumes, IF j - 1 < window THEN 0 ELSE j - 1 - window,
                    j - 1, FloatMin))]

volume_relative_high(volumes, window) ==
    [j \in 1..Len(volumes) |->
        IF j - 1 < window THEN FALSE
        ELSE FGt(volumes[j], FoldMax(volumes, j - 1 - window, j - 1, FloatMin))]

\* ------------------------------------------------------------------ run_strategy
\* NaiveDate::parse_from_str(date, "%Y-%m-%d") with the 1970-01-01 fallback.
\* A date string is modelled by the day it names, or "malformed".
Epoch == "1970-01-01"

ParseDate(date) == IF date = "malformed" THEN Epoch ELSE date

ipo_lockup_screener_stub(today) ==
    << [symbol |-> "DEMO", lockup_expiration_date |-> today] >>

\* Mutant of WithinLockupWindow: the epoch fallback date is outside every window.
WithinLockupWindow_NotEpoch(today) == today # Epoch

\* ipos.iter().any(|_ipo| true)
WithinLockupWindow(today) ==
    \E j \in 1..Len(ipo_lockup_screener_stub(today)) : TRUE

DefaultResult == [trades |-> <<>>, total_pnl |-> Zero, wins |-> 0, losses |-> 0]

\* rsi[i].map(|v| v > 65.0).unwrap_or(false)
RsiOk(rsi_i) == IsSome(rsi_i) /\ FGt(rsi_i.v, F(65))

\* Mutant of EntrySignal: the entry check does not look at the open position.
EntrySignal_NoFlatCheck(cur, rsi_i, vol_i, lockup) ==
    RsiOk(rsi_i) /\ vol_i /\ lockup

\* Mutant of EntrySignal: the entry check does not look at the volume signal.
EntrySignal_NoVolume(cur, rsi_i, vol_i, lockup) ==
    ~IsSome(cur) /\ RsiOk(rsi_i) /\ lockup

EntrySignal(cur, rsi_i, vol_i, lockup) ==
    ~IsSome(cur) /\ RsiOk(rsi_i) /\ vol_i /\ lockup

NewTrade(price, idx) ==
    [entry_price |-> price, exit_price |-> None, quantity |-> F(1),
     entry_index |-> idx, exit_index |-> None]

\* Mutant of TakeProfit: the target is 10% below the entry price.
TakeProfit_Deeper(tr) == FMul(tr.entry_price, Fin(90, 100))

TakeProfit(tr) == FMul(tr.entry_price, Fin(97, 100))

\* Mutant of StopLoss: the stop is the entry price itself.
StopLoss_AtEntry(tr) == tr.entry_price

StopLoss(tr) == FMul(tr.entry_price, Fin(103, 100))

\* Mutant of ExitSignal: the stop-loss is missing.
ExitSignal_NoStopLoss(tr, rsi_i, price) ==
    \/ IsSome(rsi_i) /\ FLt(rsi_i.v, F(55))
    \/ FLe(price, TakeProfit(tr))

ExitSignal(tr, rsi_i, price) ==
    \/ IsSome(rsi_i) /\ FLt(rsi_i.v, F(55))
    \/ FLe(price, TakeProfit(tr))
    \/ FGe(price, StopLoss(tr))

\* Mutant of Pnl: the long-side convention.
Pnl_LongSide(tr, price) == FMul(FSub(price, tr.entry_price), tr.quantity)

Pnl(tr, price) == FMul(FSub(tr.entry_price, price), tr.quantity)

CloseTrade(tr, price, idx) ==
    [tr EXCEPT !.exit_price = Some(price), !.exit_index = Some(idx)]

\* Mutant of Book: a trade with pnl == 0 is counted neither as a win nor as a loss.
Book_TieUncounted(res, tr, pnl) ==
    [trades |-> Append(res.trades, tr),
     total_pnl |-> FAdd(res.total_pnl, pnl),
     wins |-> IF FGt(pnl, Zero) THEN res.wins + 1 ELSE res.wins,
     losses |-> IF FLt(pnl, Zero) THEN res.losses + 1 ELSE res.losses]

\* Mutant of Book: the closed trade is put at the front of the ledger.
Book_Prepend(res, tr, pnl) ==
    [trades |-> <<tr>> \o res.trades,
     total_pnl |-> FAdd(res.total_pnl, pnl),
     wins |-> IF FGe(pnl, Zero) THEN res.wins + 1 ELSE res.wins,
     losses |-> IF FGe(pnl, Zero) THEN res.losses ELSE res.losses + 1]

\* Mutant of Book: a trade with pnl == 0 is counted as a loss.
Book_ZeroIsLoss(res, tr, pnl) ==
    [trades |-> Append(res.trades, tr),
     total_pnl |-> FAdd(res.total_pnl, pnl),
     wins |-> IF FGt(pnl, Zero) THEN res.wins + 1 ELSE res.wins,
     losses |-> IF FGt(pnl, Zero) THEN res.losses ELSE res.losses + 1]

\* total_pnl += pnl; wins or losses += 1; trades.push(tr)
Book(res, tr, pnl) ==
    [trades |-> Append(res.trades, tr),
     total_pnl |-> FAdd(res.total_pnl, pnl),
     wins |-> IF FGe(pnl, Zero) THEN res.wins + 1 ELSE res.wins,
     losses |-> IF FGe(pnl, Zero) THEN res.losses ELSE res.losses + 1]

\* ------------------------------------------------------------------ state
VARIABLES
    pc,               \* position in run_strategy: call, entry, exit, close, done
    ohlcv,            \* the bars passed to run_strategy
    closes, volumes,  \* the columns collected from ohlcv
    rsi, vol_high,    \* the indicator arrays
    i,                \* loop index
    current,          \* Option<Trade>: the open position
    result,           \* BacktestResult
    arg_closes,       \* compute_rsi called alone: its closes
    arg_period,       \*   its period
    overflow_checks,  \*   whether the build checks integer overflow
    ret_rsi,          \*   its outcome
    arg_volumes,      \* volume_relative_high called alone: its volumes
    arg_window,       \*   its window
    ret_vol           \*   its outcome

vars == <<pc, ohlcv, closes, volumes, rsi, vol_high, i, current, result,
          arg_closes, arg_period, overflow_checks, ret_rsi,
          arg_volumes, arg_window, ret_vol>>

runVars == <<pc, ohlcv, closes, volumes, rsi, vol_high, i, current, result>>

\* Sequences over S of length 0..n.
SeqsUpTo(S, n) == UNION {[1..m -> S] : m \in 0..n}

\* ---- inputs of run_strategy
\* A warm-up prefix of WarmLen bars at volume 1 (flat at the base close, or
\* rising by 1 per bar up to it), or none, followed by up to MaxTail bars.  A
\* tail bar closes at the base plus an offset; its volume is 1, or a spike one
\* above every earlier volume.  Without a prefix and after the rising prefix
\* the last bar may carry a malformed date.  The "tiny" prefix is flat at the
\* smallest positive float and its tail stays there.  The "early" prefix is
\* flat with a volume spike on its last bar, and its tail stays at the base.
Prefixes ==
    { <<"none", 100>>, <<"flat", 0>>, <<"flat", 100>>, <<"rise", 100>>,
      <<"tiny", 1>>, <<"early", 100>> }

Offsets == {-3, 0, 2}

TailOffsets(kind) == IF kind \in {"tiny", "early"} THEN {0} ELSE Offsets

\* The close n of a bar after the prefix kind, as a float.
Price(kind, n) == IF kind = "tiny" THEN Fin(n, TinyDen) ELSE F(n)

DateVals == {"2024-03-01", "malformed"}

LastDates(kind) == IF kind \in {"flat", "tiny", "early"} THEN {"2024-03-01"} ELSE DateVals

Bar(date, close, volume) == [date |-> date, close |-> close, volume |-> F(volume)]

WarmBars(kind, base) ==
    IF kind = "none" THEN <<>>
    ELSE [j \in 1..WarmLen |->
             Bar("2024-03-01",
                 Price(kind, IF kind = "rise" THEN base - (WarmLen - j) ELSE base),
                 IF kind = "early" /\ j = WarmLen THEN 2 ELSE 1)]

\* Number of spikes among the first n tail bars.
SpikesBefore(tail, n) == Cardinality({m \in 1..n : tail[m][2]})

TailBars(kind, base, tail, lastDate) ==
    [j \in 1..Len(tail) |->
        Bar(IF j = Len(tail) THEN lastDate ELSE "2024-03-01",
            Price(kind, base + tail[j][1]),
            IF tail[j][2] THEN 2 + SpikesBefore(tail, j - 1) ELSE 1)]

Input(p, tail, d) == WarmBars(p[1], p[2]) \o TailBars(p[1], p[2], tail, d)

RsiIdle ==
    /\ arg_closes = <<>>
    /\ arg_period = 0
    /\ overflow_checks = FALSE
    /\ ret_rsi = [k |-> "none"]

VolIdle ==
    /\ arg_volumes = <<>>
    /\ arg_window = 0
    /\ ret_vol = [k |-> "none"]

Init ==
    /\ pc = "call"
    /\ \E p \in Prefixes :
         \E d \in LastDates(p[1]) :
           \E tail \in SeqsUpTo(TailOffsets(p[1]) \X BOOLEAN, MaxTail) :
             ohlcv = Input(p, tail, d)
    /\ closes = <<>>
    /\ volumes = <<>>
    /\ rsi = <<>>
    /\ vol_high = <<>>
    /\ i = 0
    /\ current = None
    /\ result = DefaultResult
    /\ RsiIdle
    /\ VolIdle

\* ---- run_strategy as a function of its bars
\* The loop from bar idx on: st holds the open position and the result.
RECURSIVE RunLoop(_, _, _, _, _, _)
RunLoop(bars, cl, rs, vh, idx, st) ==
    IF idx >= Len(bars) THEN st
    ELSE LET today == ParseDate(At(bars, idx).date)
             cur == IF EntrySignal(st.current, At(rs, idx), At(vh, idx),
                                   WithinLockupWindow(today))
                    THEN Some(NewTrade(At(cl, idx), idx))
                    ELSE st.current
             price == At(cl, idx)
         IN  IF IsSome(cur) /\ ExitSignal(cur.v, At(rs, idx), price)
             THEN RunLoop(bars, cl, rs, vh, idx + 1,
                      [current |-> None,
                       result |-> Book(st.result, CloseTrade(cur.v, price, idx),
                                       Pnl(cur.v, price))])
             ELSE RunLoop(bars, cl, rs, vh, idx + 1,
                      [current |-> cur, result |-> st.result])

\* The BacktestResult run_strategy returns for bars.
run_strategy(bars) ==
    IF Len(bars) = 0 THEN DefaultResult
    ELSE LET cl == [j \in 1..Len(bars) |-> bars[j].close]
             vl == [j \in 1..Len(bars) |-> bars[j].volume]
             st == RunLoop(bars, cl, compute_rsi(cl, RsiPeriod),
                           volume_relative_high(vl, VolWindow), 0,
                           [current |-> None, result |-> DefaultResult])
             last_price == cl[Len(cl)]
         IN  IF IsSome(st.current)
             THEN Book(st.result,
                       CloseTrade(st.current.v, last_price, Len(bars) - 1),
                       Pnl(st.current.v, last_price))
             ELSE st.result

\* Mutant of Call: no early return, an empty input falls through to the code
\* after the loop.
Call_NoEarlyReturn ==
    /\ pc = "call"
    /\ closes' = [j \in 1..Len(ohlcv) |-> ohlcv[j].close]
    /\ volumes' = [j \in 1..Len(ohlcv) |-> ohlcv[j].volume]
    /\ rsi' = compute_rsi(closes', RsiPeriod)
    /\ vol_high' = volume_relative_high(volumes', VolWindow)
    /\ result' = DefaultResult
    /\ current' = None
    /\ i' = 0
    /\ pc' = IF Len(ohlcv) = 0 THEN "close" ELSE "entry"
    /\ UNCHANGED <<ohlcv, arg_closes, arg_period, overflow_checks, ret_rsi,
                   arg_volumes, arg_window, ret_vol>>

\* ---- run_strategy
\* Entry of run_strategy up to the loop: the empty-input return, or the
\* columns and indicator arrays.
Call ==
    /\ pc = "call"
    /\ IF Len(ohlcv) = 0
       THEN /\ pc' = "done"
            /\ result' = DefaultResult
            /\ UNCHANGED <<closes, volumes, rsi, vol_high, i, current>>
       ELSE /\ closes' = [j \in 1..Len(ohlcv) |-> ohlcv[j].close]
            /\ volumes' = [j \in 1..Len(ohlcv) |-> ohlcv[j].volume]
            /\ rsi' = compute_rsi(closes', RsiPeriod)
            /\ vol_high' = volume_relative_high(volumes', VolWindow)
            /\ result' = DefaultResult
            /\ current' = None
            /\ i' = 0
            /\ pc' = "entry"
    /\ UNCHANGED <<ohlcv, arg_closes, arg_period, overflow_checks, ret_rsi,
                   arg_volumes, arg_window, ret_vol>>

\* The position after the entry check of bar idx.
AfterEntry(cur, idx) ==
    LET today == ParseDate(At(ohlcv, idx).date)
    IN  IF EntrySignal(cur, At(rsi, idx), At(vol_high, idx), WithinLockupWindow(today))
        THEN Some(NewTrade(At(closes, idx), idx))
        ELSE cur

\* First half of the loop body: date, lockup predicate and entry check.
EntryStep ==
    /\ pc = "entry"
    /\ current' = AfterEntry(current, i)
    /\ pc' = "exit"
    /\ UNCHANGED <<ohlcv, closes, volumes, rsi, vol_high, i, result,
                   arg_closes, arg_period, overflow_checks, ret_rsi,
                   arg_volumes, arg_window, ret_vol>>

\* Mutant of ExitStep: a position opened on this bar is not tested for exit.
ExitStep_NotOnEntryBar ==
    /\ pc = "exit"
    /\ IF /\ IsSome(current)
          /\ current.v.entry_index < i
          /\ ExitSignal(current.v, At(rsi, i), At(closes, i))
       THEN LET price == At(closes, i)
                tr == CloseTrade(current.v, price, i)
            IN  /\ result' = Book(result, tr, Pnl(tr, price))
                /\ current' = None
       ELSE UNCHANGED <<result, current>>
    /\ i' = i + 1
    /\ pc' = IF i + 1 < Len(ohlcv) THEN "entry" ELSE "close"
    /\ UNCHANGED <<ohlcv, closes, volumes, rsi, vol_high,
                   arg_closes, arg_period, overflow_checks, ret_rsi,
                   arg_volumes, arg_window, ret_vol>>

\* Second half of the loop body: the exit check, then the next index.
ExitStep ==
    /\ pc = "exit"
    /\ IF IsSome(current) /\ ExitSignal(current.v, At(rsi, i), At(closes, i))
       THEN LET price == At(closes, i)
                tr == CloseTrade(current.v, price, i)
            IN  /\ result' = Book(result, tr, Pnl(tr, price))
                /\ current' = None
       ELSE UNCHANGED <<result, current>>
    /\ i' = i + 1
    /\ pc' = IF i + 1 < Len(ohlcv) THEN "entry" ELSE "close"
    /\ UNCHANGED <<ohlcv, closes, volumes, rsi, vol_high,
                   arg_closes, arg_period, overflow_checks, ret_rsi,
                   arg_volumes, arg_window, ret_vol>>

\* Mutant of ForcedClose: the function returns without the forced close.
ForcedClose_Skipped ==
    /\ pc = "close"
    /\ pc' = "done"
    /\ UNCHANGED <<ohlcv, closes, volumes, rsi, vol_high, i, current, result,
                   arg_closes, arg_period, overflow_checks, ret_rsi,
                   arg_volumes, arg_window, ret_vol>>

\* Mutant of ForcedClose: the forced close appends the trade without booking
\* its pnl and its win or loss.
ForcedClose_NotBooked ==
    /\ pc = "close"
    /\ IF IsSome(current)
       THEN /\ result' = [result EXCEPT !.trades =
                             Append(@, CloseTrade(current.v, closes[Len(closes)],
                                                  Len(ohlcv) - 1))]
            /\ current' = None
       ELSE UNCHANGED <<result, current>>
    /\ pc' = "done"
    /\ UNCHANGED <<ohlcv, closes, volumes, rsi, vol_high, i,
                   arg_closes, arg_period, overflow_checks, ret_rsi,
                   arg_volumes, arg_window, ret_vol>>

\* After the loop: the forced close of a position left open, and the return.
\* The open trade is moved out of `current` into the ledger.
ForcedClose ==
    /\ pc = "close"
    /\ IF IsSome(current)
       THEN LET last_price == closes[Len(closes)]
                tr == CloseTrade(current.v, last_price, Len(ohlcv) - 1)
            IN  /\ result' = Book(result, tr, Pnl(tr, last_price))
                /\ current' = None
       ELSE UNCHANGED <<result, current>>
    /\ pc' = "done"
    /\ UNCHANGED <<ohlcv, closes, volumes, rsi, vol_high, i,
                   arg_closes, arg_period, overflow_checks, ret_rsi,
                   arg_volumes, arg_window, ret_vol>>

Next == Call \/ EntryStep \/ ExitStep \/ ForcedClose

Spec == Init /\ [][Next]_vars

\* ------------------------------------------------------------------ compute_rsi alone
\* compute_rsi called on its own with every closes sequence of up to MaxCloses
\* values, every period up to MaxPeriod and the largest usize, in a build with
\* and without overflow checks.
RsiCloseVals == {0, 1, 2, FloatMax}

RsiPeriods == 0..MaxPeriod \cup {UsizeMax}

InitRsi ==
    /\ \E cs \in SeqsUpTo(RsiCloseVals, MaxCloses) :
         arg_closes = [j \in 1..Len(cs) |-> F(cs[j])]
    /\ arg_period \in RsiPeriods
    /\ overflow_checks \in BOOLEAN
    /\ ret_rsi = [k |-> "none"]
    /\ VolIdle
    /\ pc = "idle"
    /\ ohlcv = <<>>
    /\ closes = <<>>
    /\ volumes = <<>>
    /\ rsi = <<>>
    /\ vol_high = <<>>
    /\ i = 0
    /\ current = None
    /\ result = DefaultResult

RsiCall ==
    /\ ret_rsi.k = "none"
    /\ ret_rsi' = IF compute_rsi_panics(arg_closes, arg_period, overflow_checks)
                  THEN [k |-> "panic"]
                  ELSE [k |-> "ok", v |-> compute_rsi(arg_closes, arg_period)]
    /\ UNCHANGED <<arg_closes, arg_period, overflow_checks>>
    /\ UNCHANGED <<arg_volumes, arg_window, ret_vol>>
    /\ UNCHANGED runVars

NextRsi == RsiCall

SpecRsi == InitRsi /\ [][NextRsi]_vars

\* ------------------------------------------------------------------ properties
\* A trade whose exit has been filled in.
Closed(tr) == IsSome(tr.exit_price) /\ IsSome(tr.exit_index)

LastIndex == Len(ohlcv) - 1

LastTrade == result.trades[Len(result.trades)]

\* C1: for a non-empty bar sequence, when run_strategy returns no position is
\* open and every trade of the ledger has its exit price and exit index set.
C1_FlatAtReturn ==
    (pc = "done" /\ Len(ohlcv) > 0) =>
        /\ ~IsSome(current)
        /\ \A j \in 1..Len(result.trades) : Closed(result.trades[j])

\* C1 witness: a run has returned whose last trade was still open after the
\* last bar (no exit condition held there) and was closed by the forced close.
C1_Witness ==
    /\ pc = "done"
    /\ Len(result.trades) > 0
    /\ LastTrade.exit_index = Some(LastIndex)
    /\ LastTrade.entry_index < LastIndex
    /\ ~ExitSignal(LastTrade, At(rsi, LastIndex), At(closes, LastIndex))

\* C2: at most one trade is open.  A step that starts with an open trade
\* either keeps that very trade or closes it and appends it to the ledger; it
\* never replaces it by a new entry, and the ledger never holds an open trade.
C2_Step ==
    /\ IsSome(current) /\ IsSome(current') => current' = current
    /\ IsSome(current) /\ ~IsSome(current') =>
          /\ Len(result'.trades) = Len(result.trades) + 1
          /\ result'.trades[Len(result'.trades)].entry_index = current.v.entry_index
          /\ result'.trades[Len(result'.trades)].entry_price = current.v.entry_price
    /\ \A j \in 1..Len(result'.trades) : Closed(result'.trades[j])

C2_OneOpenTrade == [][C2_Step]_vars

\* C2 witness: the entry check runs on a bar whose RSI and volume signal an
\* entry while a trade opened on an earlier bar is still open.
C2_Witness ==
    /\ pc = "entry"
    /\ IsSome(current)
    /\ RsiOk(At(rsi, i))
    /\ At(vol_high, i)

\* Sum of (entry_price - exit_price) * quantity over the first n ledger trades.
RECURSIVE SumPnl(_, _)
SumPnl(trades, n) ==
    IF n = 0 THEN Zero
    ELSE FAdd(SumPnl(trades, n - 1),
              FMul(FSub(trades[n].entry_price, trades[n].exit_price.v),
                   trades[n].quantity))

\* C3: total_pnl is always the sum of (entry_price - exit_price) * quantity
\* over the trades of the ledger.
C3_TotalPnl == FEq(result.total_pnl, SumPnl(result.trades, Len(result.trades)))

\* C3 witness: a run has returned with two trades and a non-zero total, the
\* last of them closed by the forced close.
C3_Witness ==
    /\ pc = "done"
    /\ Len(result.trades) >= 2
    /\ ~FEq(result.total_pnl, Zero)
    /\ LastTrade.exit_index = Some(LastIndex)
    /\ ~ExitSignal(LastTrade, At(rsi, LastIndex), At(closes, LastIndex))

\* C4: wins + losses is always the number of trades in the ledger.
C4_WinsLosses == result.wins + result.losses = Len(result.trades)

\* C4 witness: a run has returned with a winning and a losing trade.
C4_Witness ==
    /\ pc = "done"
    /\ result.wins >= 1
    /\ result.losses >= 1

\* The entry condition as the specification words it.
EntryCondition(idx) ==
    /\ IsSome(At(rsi, idx))
    /\ FGt(At(rsi, idx).v, F(65))
    /\ At(vol_high, idx) = TRUE
    /\ WithinLockupWindow(ParseDate(At(ohlcv, idx).date))

\* C5: the entry step of bar i, started flat, opens a trade iff the entry
\* condition holds, and the trade it opens has entry_price = closes[i],
\* quantity 1, entry_index i and no exit; started short it changes nothing.
C5_Step ==
    pc = "entry" /\ pc' = "exit" =>
        /\ result' = result
        /\ IF IsSome(current)
           THEN current' = current
           ELSE /\ IsSome(current') <=> EntryCondition(i)
                /\ IsSome(current') =>
                      current'.v = [entry_price |-> At(closes, i), exit_price |-> None,
                                    quantity |-> F(1), entry_index |-> i,
                                    exit_index |-> None]

C5_Entry == [][C5_Step]_vars

\* C5 witness: the entry step has just opened a position on bar i.
C5_Witness ==
    /\ pc = "exit"
    /\ IsSome(current)
    /\ current.v.entry_index = i
    /\ i >= VolWindow

\* The exit condition as the specification words it.
ExitCondition(tr, idx) ==
    \/ IsSome(At(rsi, idx)) /\ FLt(At(rsi, idx).v, F(55))
    \/ FLe(At(closes, idx), FMul(tr.entry_price, Fin(97, 100)))
    \/ FGe(At(closes, idx), FMul(tr.entry_price, Fin(103, 100)))

\* C6: the exit step of bar i with a position open closes it iff the exit
\* condition holds; the closed trade gets exit_price = closes[i] and
\* exit_index = i and is appended to the ledger; otherwise the open trade and
\* the result are unchanged.
C6_Step ==
    pc = "exit" /\ pc' # "exit" =>
        IF IsSome(current)
        THEN IF ExitCondition(current.v, i)
             THEN /\ ~IsSome(current')
                  /\ result'.trades =
                        Append(result.trades,
                               [current.v EXCEPT !.exit_price = Some(At(closes, i)),
                                                 !.exit_index = Some(i)])
             ELSE current' = current /\ result' = result
        ELSE current' = current /\ result' = result

C6_Exit == [][C6_Step]_vars

\* C6 witness: a trade was closed by an exit condition on a bar after its
\* entry bar and before the last bar, by the take-profit alone.
C6_Witness ==
    /\ Len(result.trades) > 0
    /\ LastTrade.exit_index.v > LastTrade.entry_index
    /\ LastTrade.exit_index.v < LastIndex
    /\ FLe(LastTrade.exit_price.v, FMul(LastTrade.entry_price, Fin(97, 100)))
    /\ ~FLt(At(rsi, LastTrade.exit_index.v).v, F(55))

\* C7: the forced close closes a position left open after the last bar at
\* the last close and index len-1, adds its pnl to total_pnl, counts it as a
\* win when pnl >= 0 and as a loss otherwise, and appends it last; with no
\* position open the result is unchanged.
C7_Step ==
    pc = "close" /\ pc' = "done" =>
        IF IsSome(current)
        THEN LET tr == current.v
                 last == closes[Len(closes)]
                 pnl == FMul(FSub(tr.entry_price, last), tr.quantity)
             IN  /\ result'.trades =
                       Append(result.trades,
                              [tr EXCEPT !.exit_price = Some(last),
                                         !.exit_index = Some(Len(ohlcv) - 1)])
                 /\ result'.total_pnl = FAdd(result.total_pnl, pnl)
                 /\ result'.wins = result.wins + (IF FGe(pnl, Zero) THEN 1 ELSE 0)
                 /\ result'.losses = result.losses + (IF FGe(pnl, Zero) THEN 0 ELSE 1)
        ELSE result' = result

C7_ForcedClose == [][C7_Step]_vars

\* C7 witness: a run has returned whose last trade was closed by the forced
\* close at a loss.
C7_Witness ==
    /\ pc = "done"
    /\ Len(result.trades) > 0
    /\ LastTrade.exit_index = Some(LastIndex)
    /\ ~ExitSignal(LastTrade, At(rsi, LastIndex), At(closes, LastIndex))
    /\ result.losses >= 1
    /\ FLt(FSub(LastTrade.entry_price, LastTrade.exit_price.v), Zero)

\* C8: compute_rsi returns a sequence as long as closes, and rsi[i] is defined
\* iff period > 0, len(closes) >= period + 1 and i >= period.
C8_DefinedIff ==
    ret_rsi.k # "none" =>
        /\ ret_rsi.k = "ok"
        /\ Len(ret_rsi.v) = Len(arg_closes)
        /\ \A idx \in 0..(Len(arg_closes) - 1) :
              IsSome(At(ret_rsi.v, idx)) <=>
                  /\ arg_period > 0
                  /\ Len(arg_closes) >= arg_period + 1
                  /\ idx >= arg_period

\* C9: every defined value compute_rsi returns for finite closes lies in the
\* closed interval [0, 100].
C9_InRange ==
    ret_rsi.k = "ok" =>
        \A j \in 1..Len(ret_rsi.v) :
            IsSome(ret_rsi.v[j]) =>
                FGe(ret_rsi.v[j].v, Zero) /\ FLe(ret_rsi.v[j].v, F(100))

\* C10: at the seed index and at every later index, the value compute_rsi
\* emits is exactly 100 whenever avg_loss is 0 (also when avg_gain is 0 too),
\* and 100 - 100/(1 + avg_gain/avg_loss) otherwise.
C10_ZeroLoss ==
    (ret_rsi.k = "ok" /\ ~RsiTooShort(arg_closes, arg_period)) =>
        LET trace == RsiTrace(arg_closes, arg_period)
        IN  \A j \in 1..Len(trace) :
                LET out == ret_rsi.v[arg_period + j]
                IN  /\ IsSome(out)
                    /\ IF FEq(trace[j].avg_loss, Zero)
                       THEN out.v = F(100)
                       ELSE out.v = FSub(F(100),
                                FDiv(F(100),
                                     FAdd(F(1), FDiv(trace[j].avg_gain,
                                                     trace[j].avg_loss))))

\* C10 witness: compute_rsi has returned for a completely flat close series
\* reaching past the seed index: avg_gain and avg_loss are both 0 there.
C10_Witness ==
    /\ ret_rsi.k = "ok"
    /\ ~RsiTooShort(arg_closes, arg_period)
    /\ Len(arg_closes) > arg_period + 1
    /\ \A j \in 1..Len(arg_closes) : arg_closes[j] = arg_closes[1]
    /\ ret_rsi.v[Len(arg_closes)] = Some(F(100))

\* ------------------------------------------------------------------ the indicators alone
\* compute_rsi and volume_relative_high called on their own, each with the
\* same finite series of up to MaxCloses values and the same lookback: every
\* lookback up to MaxPeriod, and the largest usize.
IndVals == {-FloatMax, 0, 1, 2}

InitInd ==
    /\ \E xs \in SeqsUpTo(IndVals, MaxCloses) :
         /\ arg_closes = [j \in 1..Len(xs) |-> F(xs[j])]
         /\ arg_volumes = [j \in 1..Len(xs) |-> F(xs[j])]
    /\ \E n \in RsiPeriods :
         /\ arg_period = n
         /\ arg_window = n
    /\ overflow_checks = FALSE
    /\ ret_rsi = [k |-> "none"]
    /\ ret_vol = [k |-> "none"]
    /\ pc = "idle"
    /\ ohlcv = <<>>
    /\ closes = <<>>
    /\ volumes = <<>>
    /\ rsi = <<>>
    /\ vol_high = <<>>
    /\ i = 0
    /\ current = None
    /\ result = DefaultResult

VolCall ==
    /\ ret_vol.k = "none"
    /\ ret_vol' = [k |-> "ok", v |-> volume_relative_high(arg_volumes, arg_window)]
    /\ UNCHANGED <<arg_volumes, arg_window>>
    /\ UNCHANGED <<arg_closes, arg_period, overflow_checks, ret_rsi>>
    /\ UNCHANGED runVars

NextInd == RsiCall \/ VolCall

SpecInd == InitInd /\ [][NextInd]_vars

\* C11: for finite volumes and a positive window, volume_relative_high returns
\* a sequence of the same length; entry i is false for i < window, and for
\* i >= window it is true iff volumes[i] is strictly greater than the maximum
\* of volumes[i-window .. i).
C11_RelativeHigh ==
    (ret_vol.k = "ok" /\ arg_window > 0) =>
        /\ Len(ret_vol.v) = Len(arg_volumes)
        /\ \A idx \in 0..(Len(arg_volumes) - 1) :
              At(ret_vol.v, idx) <=>
                  /\ idx >= arg_window
                  /\ \E m \in (idx - arg_window)..(idx - 1) :
                        /\ \A n \in (idx - arg_window)..(idx - 1) :
                              FLe(At(arg_volumes, n), At(arg_volumes, m))
                        /\ FGt(At(arg_volumes, idx), At(arg_volumes, m))

\* C11 witness: volume_relative_high has returned with a window of two or
\* more; one entry is true and one entry past the window is false on a tie
\* with the window maximum.
C11_Witness ==
    /\ ret_vol.k = "ok"
    /\ arg_window >= 2
    /\ \E idx \in arg_window..(Len(arg_volumes) - 1) : At(ret_vol.v, idx)
    /\ \E idx \in arg_window..(Len(arg_volumes) - 1) :
          /\ ~At(ret_vol.v, idx)
          /\ \E m \in (idx - arg_window)..(idx - 1) :
                At(arg_volumes, m) = At(arg_volumes, idx)
          /\ \A m \in (idx - arg_window)..(idx - 1) :
                FLe(At(arg_volumes, m), At(arg_volumes, idx))

\* C12: volume_relative_high with window == 0 returns all false, and
\* compute_rsi with period == 0 returns all absent, for every input sequence.
C12_Degenerate ==
    /\ (ret_vol.k = "ok" /\ arg_window = 0) =>
          /\ Len(ret_vol.v) = Len(arg_volumes)
          /\ \A j \in 1..Len(ret_vol.v) : ret_vol.v[j] = FALSE
    /\ (ret_rsi.k # "none" /\ arg_period = 0) =>
          /\ ret_rsi.k = "ok"
          /\ Len(ret_rsi.v) = Len(arg_closes)
          /\ \A j \in 1..Len(ret_rsi.v) : ret_rsi.v[j] = None

\* C13: on an empty bar sequence run_strategy returns the default result at
\* once: no indicator array is computed and no entry, exit or forced-close
\* step runs.
C13_EmptyInput ==
    (Len(ohlcv) = 0 /\ pc # "idle") =>
        /\ pc \in {"call", "done"}
        /\ result = DefaultResult
        /\ rsi = <<>>
        /\ vol_high = <<>>
        /\ current = None

\* C13 witness: run_strategy has returned for an empty bar sequence.
C13_Witness == pc = "done" /\ Len(ohlcv) = 0

\* The same bars with every date well-formed.
ValidDates(bars) == [j \in 1..Len(bars) |-> [bars[j] EXCEPT !.date = "2024-03-01"]]

\* C14: a bar with a malformed date does not stop the run, and the result
\* returned is the one run_strategy returns for the same closes and volumes
\* with well-formed dates.
C14_SameResult == pc = "done" => result = run_strategy(ValidDates(ohlcv))

C14_Step ==
    (pc = "entry" /\ At(ohlcv, i).date = "malformed") =>
        /\ ParseDate(At(ohlcv, i).date) = Epoch
        /\ pc' = "exit"
        /\ i' = i

C14_DateFallback == [](C14_SameResult) /\ [][C14_Step]_vars

\* C14 witness: a run has returned whose last bar has a malformed date and
\* opened a trade.
C14_Witness ==
    /\ pc = "done"
    /\ Len(ohlcv) > VolWindow
    /\ At(ohlcv, LastIndex).date = "malformed"
    /\ Len(result.trades) > 0
    /\ LastTrade.entry_index = LastIndex

\* The pnl of a closed trade.
TradePnl(tr) == FMul(FSub(tr.entry_price, tr.exit_price.v), tr.quantity)

\* C15: wins is the number of ledger trades with pnl >= 0 and losses the
\* number with pnl < 0, and a step that closes a trade adds exactly 1 to
\* exactly one of them, by the sign of that trade's pnl.
C15_Counts ==
    /\ result.wins =
          Cardinality({j \in 1..Len(result.trades) :
                          FGe(TradePnl(result.trades[j]), Zero)})
    /\ result.losses =
          Cardinality({j \in 1..Len(result.trades) :
                          FLt(TradePnl(result.trades[j]), Zero)})

C15_Step ==
    Len(result'.trades) = Len(result.trades) + 1 =>
        LET pnl == TradePnl(result'.trades[Len(result'.trades)])
        IN  IF FGe(pnl, Zero)
            THEN result'.wins = result.wins + 1 /\ result'.losses = result.losses
            ELSE result'.wins = result.wins /\ result'.losses = result.losses + 1

C15_WinLoss == [](C15_Counts) /\ [][C15_Step]_vars

\* C15 witness: a run has returned with a trade of pnl 0 counted as a win and
\* a losing trade.
C15_Witness ==
    /\ pc = "done"
    /\ result.losses >= 1
    /\ \E j \in 1..Len(result.trades) : FEq(TradePnl(result.trades[j]), Zero)

\* C16: at the exit step of a bar after the entry bar, with a position of
\* positive entry price still open and closes[i] <= entry_price * 0.97, the
\* trade is closed at that bar at closes[i] with a strictly positive pnl,
\* wins grows by 1 and losses is unchanged.
C16_Step ==
    (/\ pc = "exit"
     /\ IsSome(current)
     /\ current.v.entry_index < i
     /\ FGt(current.v.entry_price, Zero)
     /\ FLe(At(closes, i), FMul(current.v.entry_price, Fin(97, 100)))) =>
        /\ current' = None
        /\ Len(result'.trades) = Len(result.trades) + 1
        /\ LET tr == result'.trades[Len(result'.trades)]
           IN  /\ tr.entry_index = current.v.entry_index
               /\ tr.entry_price = current.v.entry_price
               /\ tr.exit_index = Some(i)
               /\ tr.exit_price = Some(At(closes, i))
               /\ FGt(TradePnl(tr), Zero)
        /\ result'.wins = result.wins + 1
        /\ result'.losses = result.losses

C16_TakeProfit == [][C16_Step]_vars

\* C16 witness: the ledger holds a trade of positive entry price closed on a
\* later bar at or below 97% of it, on a bar whose RSI is not below 55.
C16_Witness ==
    /\ pc \in {"entry", "exit", "close", "done"}
    /\ \E j \in 1..Len(result.trades) :
         LET tr == result.trades[j]
         IN  /\ FGt(tr.entry_price, Zero)
             /\ tr.exit_index.v > tr.entry_index
             /\ FLe(tr.exit_price.v, FMul(tr.entry_price, Fin(97, 100)))
             /\ IsSome(At(rsi, tr.exit_index.v))
             /\ FGe(At(rsi, tr.exit_index.v).v, F(55))
             /\ FGt(TradePnl(tr), Zero)

\* C17: within a bar the entry check runs before the exit check; a position
\* opened on bar i for which an exit condition holds on bar i is closed at the
\* exit step of bar i with exit_index = entry_index and exit_price =
\* entry_price; and an open position was entered after the bar on which the
\* last trade was closed.
C17_Order ==
    /\ pc = "entry" => pc' = "exit" /\ i' = i /\ result' = result
    /\ pc = "exit" => i' = i + 1 /\ pc' \in {"entry", "close"}

C17_SameBar ==
    (/\ pc = "exit"
     /\ IsSome(current)
     /\ current.v.entry_index = i
     /\ ExitCondition(current.v, i)) =>
        /\ current' = None
        /\ Len(result'.trades) = Len(result.trades) + 1
        /\ LET tr == result'.trades[Len(result'.trades)]
           IN  /\ tr.entry_index = i
               /\ tr.exit_index = Some(i)
               /\ tr.exit_price = Some(tr.entry_price)

C17_NoReopen ==
    /\ (IsSome(current) /\ Len(result.trades) > 0 /\ pc # "done") =>
           current.v.entry_index > LastTrade.exit_index.v
    /\ (pc = "exit" /\ Len(result.trades) > 0 /\ ~IsSome(current)) =>
           \A j \in 1..Len(result.trades) : result.trades[j].exit_index.v < i

C17_EntryBeforeExit ==
    [](C17_NoReopen) /\ [][C17_Order /\ C17_SameBar]_vars

\* C17 witness: a trade opened and closed by the exit check on one bar, and
\* the next trade opened on the bar after it.
C17_Witness ==
    /\ pc = "done"
    /\ \E j \in 1..Len(result.trades) - 1 :
         /\ result.trades[j].exit_index.v = result.trades[j].entry_index
         /\ result.trades[j].exit_price.v = result.trades[j].entry_price
         /\ result.trades[j + 1].entry_index = result.trades[j].entry_index + 1

\* Every close of the input is strictly positive.
AllClosesPositive == \A j \in 1..Len(ohlcv) : FGt(ohlcv[j].close, Zero)

\* Every close c of the input lies strictly inside its own 3% band as the
\* floats give it: c * 0.97 < c < c * 1.03.
AllClosesBanded ==
    \A j \in 1..Len(ohlcv) :
        /\ FLt(FMul(ohlcv[j].close, Fin(97, 100)), ohlcv[j].close)
        /\ FLt(ohlcv[j].close, FMul(ohlcv[j].close, Fin(103, 100)))

\* Under the hypothesis hyp on the closes: every trade has entry_index <=
\* exit_index < len(bars), and exit_index = entry_index only on the last bar
\* with pnl 0.  (hyp => P is written P \/ ~hyp.)
SameBarOnlyAtEnd(hyp) ==
    \/ \A j \in 1..Len(result.trades) :
          LET tr == result.trades[j]
          IN  /\ tr.entry_index <= tr.exit_index.v
              /\ tr.exit_index.v < Len(ohlcv)
              /\ tr.exit_index.v = tr.entry_index =>
                    /\ tr.entry_index = LastIndex
                    /\ FEq(TradePnl(tr), Zero)
    \/ ~hyp

\* Under hyp: no exit condition holds on the entry bar, and a trade with
\* exit_index = entry_index is appended only by the forced close, as a win.
SameBarOnlyForced(hyp) ==
    \/ /\ (pc = "exit" /\ IsSome(current) /\ current.v.entry_index = i) =>
              ~ExitCondition(current.v, i)
       /\ (/\ Len(result'.trades) = Len(result.trades) + 1
           /\ result'.trades[Len(result'.trades)].exit_index.v =
                  result'.trades[Len(result'.trades)].entry_index) =>
              /\ pc = "close"
              /\ result'.wins = result.wins + 1
              /\ result'.losses = result.losses
    \/ ~hyp

\* C18 as stated: when every close is strictly positive no exit condition
\* holds on the entry bar, every trade has entry_index <= exit_index <
\* len(bars), and exit_index = entry_index only for a trade opened on the last
\* bar and closed by the forced close with pnl 0, a win.
C18_PositiveCloses ==
    [](SameBarOnlyAtEnd(AllClosesPositive))
        /\ [][SameBarOnlyForced(AllClosesPositive)]_vars

\* C18 amended: the same, when every close c satisfies c * 0.97 < c < c * 1.03
\* in floating point (strictly positive, and not so small that the 3% bands
\* round onto c itself).
C18_BandedCloses ==
    [](SameBarOnlyAtEnd(AllClosesBanded))
        /\ [][SameBarOnlyForced(AllClosesBanded)]_vars

\* C18 witness: with every close inside its band, a trade opened on the last
\* bar and force-closed there at pnl 0, after a trade closed on a later bar
\* than it was opened.
C18_Witness ==
    /\ pc = "done"
    /\ AllClosesBanded
    /\ Len(result.trades) >= 2
    /\ LastTrade.entry_index = LastIndex
    /\ LastTrade.exit_index.v = LastIndex
    /\ FEq(TradePnl(LastTrade), Zero)
    /\ result.trades[1].exit_index.v > result.trades[1].entry_index

\* C19: the ledger only grows, by appending; entry indices increase along it
\* and each trade is entered strictly after the trade before it was closed.
C19_Ordered ==
    \A j \in 1..Len(result.trades) :
        /\ result.trades[j].entry_index <= result.trades[j].exit_index.v
        /\ j > 1 => /\ result.trades[j].entry_index >
                          result.trades[j - 1].exit_index.v
                    /\ result.trades[j].entry_index >
                          result.trades[j - 1].entry_index

C19_AppendOnly ==
    /\ Len(result'.trades) \in {Len(result.trades), Len(result.trades) + 1}
    /\ \A j \in 1..Len(result.trades) : result'.trades[j] = result.trades[j]

C19_Ledger == [](C19_Ordered) /\ [][C19_AppendOnly]_vars

\* C19 witness: a returned ledger of three trades, the second entered on the
\* bar after the first was closed.
C19_Witness ==
    /\ pc = "done"
    /\ Len(result.trades) >= 3
    /\ result.trades[2].entry_index = result.trades[1].exit_index.v + 1

\* C20: no position is opened before bar 20, and an input of at most 20 bars
\* returns an empty ledger with total_pnl 0, wins 0 and losses 0.
C20_WarmUp ==
    /\ IsSome(current) => current.v.entry_index >= 20
    /\ \A j \in 1..Len(result.trades) : result.trades[j].entry_index >= 20
    /\ (pc = "done" /\ Len(ohlcv) <= 20) => result = DefaultResult

\* C20 witness: bar 19 has a volume above every earlier one and an RSI above
\* 65, no position was opened on it, and the run has returned with a trade
\* opened after the warm-up.
C20_Witness ==
    /\ pc = "done"
    /\ Len(volumes) > 20
    /\ FGt(At(volumes, 19), At(volumes, 18))
    /\ IsSome(At(rsi, 19))
    /\ FGt(At(rsi, 19).v, F(65))
    /\ Len(result.trades) > 0
    /\ result.trades[1].entry_index >= 20

====
